---- MODULE Spec2Model ----
(***************************************************************************)
(* Connect Four agents (src/agents.py): the depth-limited minimax search,  *)
(* its three heuristics and the move-selection policies, over the State    *)
(* abstraction of connect_four (board, turn, is_terminal, winner).         *)
(*                                                                         *)
(* State objects live in a heap (a sequence of State records, an address   *)
(* is an index): MinimaxNode.state is a reference, deepcopy allocates a    *)
(* fresh object and advance_state mutates the object it is called on.      *)
(***************************************************************************)
EXTENDS Integers, Sequences, FiniteSets, TLC

(* ---------------------------------------------------------------------- *)
(* Board geometry and bounds                                              *)
(* ---------------------------------------------------------------------- *)

\* connect_four.State: a 7-column, 6-row board, four in a line wins.
num_cols == 7
num_rows == 6
win_length == 4

\* Moves the game makes after the opening it starts from.
MaxPlies == 1
\* Largest search depth handed to minimax / configured on a MinimaxPlayer.
MaxDepth == 2
\* A negative depth is only passed to minimax on positions with at most this
\* many empty cells (the recursion then runs to the end of the game).
MaxFree == 4

\* float('inf') of minimax: larger than any value a heuristic can produce
\* on this board (42 cells, at most 42 per cell).
Inf == 1000000

Roles == {"x", "o"}
Other(r) == IF r = "x" THEN "o" ELSE "x"
Cols == 0 .. (num_cols - 1)
Rows == 0 .. (num_rows - 1)

\* The four line directions used by the heuristics (col_dirs, row_dirs).
col_dirs == <<1, 1, 0, -1>>
row_dirs == <<0, 1, 1, 1>>

RECURSIVE SumRange(_, _, _)
\* Sum of F(k) for k = lo .. hi: the accumulation "result += ..." of a loop.
SumRange(F(_), lo, hi) == IF lo > hi THEN 0 ELSE F(lo) + SumRange(F, lo + 1, hi)

(* ---------------------------------------------------------------------- *)
(* connect_four.State                                                     *)
(* ---------------------------------------------------------------------- *)

\* State(): the empty board, 'x' to move.
NewState ==
    [board |-> [c \in Cols |-> [r \in Rows |-> "."]],
     turn |-> "x", is_terminal |-> FALSE, winner |-> ""]

coords_legal(c, r) == c \in Cols /\ r \in Rows

\* Columns that are not full, in ascending order; none once the game is over.
RECURSIVE LegalFrom(_, _)
LegalFrom(s, c) ==
    IF c >= num_cols THEN <<>>
    ELSE IF s.board[c][num_rows - 1] = "." THEN <<c>> \o LegalFrom(s, c + 1)
    ELSE LegalFrom(s, c + 1)

get_legal_moves(s) == IF s.is_terminal THEN <<>> ELSE LegalFrom(s, 0)

SeqToSet(q) == {q[k] : k \in 1 .. Len(q)}

\* Lowest empty row of a column that is not full.
DropRow(s, c) == CHOOSE r \in Rows : s.board[c][r] = "." /\ \A q \in 0 .. (r - 1) : s.board[c][q] # "."

RECURSIVE RunLen(_, _, _, _, _, _)
\* Number of consecutive cells holding p from (c, r) stepping by (dc, dr).
RunLen(b, p, c, r, dc, dr) ==
    IF coords_legal(c, r) /\ b[c][r] = p THEN 1 + RunLen(b, p, c + dc, r + dr, dc, dr) ELSE 0

\* The piece just placed at (c, r) lies on a line of win_length of its kind.
WinsAt(b, p, c, r) ==
    \E d \in 1 .. 4 :
        1 + RunLen(b, p, c + col_dirs[d], r + row_dirs[d], col_dirs[d], row_dirs[d])
          + RunLen(b, p, c - col_dirs[d], r - row_dirs[d], -col_dirs[d], -row_dirs[d]) >= win_length

BoardFull(b) == \A c \in Cols : b[c][num_rows - 1] # "."

\* advance_state(move): drops the mover's piece, detects win / draw, passes the turn.
\* A move outside the legal moves is rejected and leaves the position as it is.
advance_state(s, move) ==
    IF move \notin SeqToSet(get_legal_moves(s)) THEN s
    ELSE LET r == DropRow(s, move)
             b == [s.board EXCEPT ![move][r] = s.turn]
             won == WinsAt(b, s.turn, move, r)
         IN [board |-> b,
             turn |-> Other(s.turn),
             is_terminal |-> won \/ BoardFull(b),
             winner |-> IF won THEN s.turn ELSE ""]

(* ---------------------------------------------------------------------- *)
(* Heuristics                                                             *)
(* ---------------------------------------------------------------------- *)

\* TerminalScore with the maximizer hard-wired to 'x'.
TerminalScoreForX(s, max_role) ==
    IF s.winner = "" THEN 0 ELSE IF s.winner = "x" THEN 100 ELSE -100

\* The shared terminal rule: 0 for a draw, 100 / -100 for a win / loss.
TerminalScore(s, max_role) ==
    IF s.winner = "" THEN 0 ELSE IF s.winner = max_role THEN 100 ELSE -100

\* ThreeLineDir with the bounds test made on a fourth cell beyond the run.
ThreeLineDirFourth(s, max_role, i, j, dir) ==
    LET piece == s.board[i][j]
    IN IF coords_legal(i + 3 * col_dirs[dir], j + 3 * row_dirs[dir])
          /\ piece = s.board[i + col_dirs[dir]][j + row_dirs[dir]]
          /\ piece = s.board[i + 2 * col_dirs[dir]][j + 2 * row_dirs[dir]]
       THEN (IF piece = max_role THEN 1 ELSE -1)
       ELSE 0

\* Body of the "while dir" loop of three_line_heur for cell (i, j).
ThreeLineDir(s, max_role, i, j, dir) ==
    LET piece == s.board[i][j]
        fc == i + 2 * col_dirs[dir]
        fr == j + 2 * row_dirs[dir]
    IN IF coords_legal(fc, fr)
          /\ piece = s.board[i + col_dirs[dir]][j + row_dirs[dir]]
          /\ piece = s.board[fc][fr]
       THEN (IF piece = max_role THEN 1 ELSE -1)
       ELSE 0

ThreeLineCell(s, max_role, i, j) ==
    IF s.board[i][j] # "."
    THEN LET D(dir) == ThreeLineDir(s, max_role, i, j, dir) IN SumRange(D, 1, 4)
    ELSE 0

three_line_heur(s, max_role) ==
    IF s.is_terminal THEN TerminalScore(s, max_role)
    ELSE LET C(i) == LET R(j) == ThreeLineCell(s, max_role, i, j)
                     IN SumRange(R, 0, num_rows - 1)
         IN SumRange(C, 0, num_cols - 1)

zero_heur(s, max_role) ==
    IF s.is_terminal THEN TerminalScore(s, max_role) ELSE 0

RECURSIVE Scan(_, _, _, _, _, _)
\* The "for dist in range(1, 4)" loop of my_heuristic from cell (i, j):
\* <<in_a_row, open_ends>> when it ends or breaks.
Scan(s, i, j, dir, dist, in_a_row) ==
    IF dist > 3 THEN <<in_a_row, 0>>
    ELSE LET next_col == i + dist * col_dirs[dir]
             next_row == j + dist * row_dirs[dir]
         IN IF coords_legal(next_col, next_row)
            THEN IF s.board[next_col][next_row] = s.board[i][j]
                 THEN Scan(s, i, j, dir, dist + 1, in_a_row + 1)
                 ELSE IF s.board[next_col][next_row] = "."
                      THEN <<in_a_row, 1>>
                      ELSE <<in_a_row, 0>>
            ELSE <<in_a_row, 0>>

\* Body of the "for dir" loop of my_heuristic for cell (i, j).
MyDir(s, max_role, i, j, dir) ==
    LET sc == Scan(s, i, j, dir, 1, 0)
        in_a_row == sc[1]
        opposite_col == i - col_dirs[dir]
        opposite_row == j - row_dirs[dir]
        open_ends == sc[2] + (IF coords_legal(opposite_col, opposite_row)
                                 /\ s.board[opposite_col][opposite_row] = "."
                              THEN 1 ELSE 0)
        sign == IF s.board[i][j] = max_role THEN 1 ELSE -1
    IN IF in_a_row = 1 /\ open_ends >= 1 THEN sign * 5
       ELSE IF in_a_row = 2 THEN (IF open_ends >= 1 THEN sign * 10 ELSE sign * 7)
       ELSE IF in_a_row = 0 /\ open_ends = 2 THEN sign * 3
       ELSE 0

MyCell(s, max_role, i, j) ==
    IF s.board[i][j] # "."
    THEN LET D(dir) == MyDir(s, max_role, i, j, dir)
         IN (IF i = num_cols \div 2
             THEN (IF s.board[i][j] = max_role THEN 2 ELSE -2)
             ELSE 0)
            + SumRange(D, 1, 4)
    ELSE 0

my_heuristic(s, max_role) ==
    IF s.is_terminal THEN TerminalScore(s, max_role)
    ELSE LET C(i) == LET R(j) == MyCell(s, max_role, i, j)
                     IN SumRange(R, 0, num_rows - 1)
         IN SumRange(C, 0, num_cols - 1)

\* The heuristic_fn argument: a function value, named here by a string.
Heuristics == {"zero_heur", "three_line_heur", "my_heuristic"}
Heur(h, s, max_role) ==
    CASE h = "zero_heur" -> zero_heur(s, max_role)
      [] h = "three_line_heur" -> three_line_heur(s, max_role)
      [] h = "my_heuristic" -> my_heuristic(s, max_role)

(* ---------------------------------------------------------------------- *)
(* MinimaxNode and minimax                                                *)
(* ---------------------------------------------------------------------- *)

Max(a, b) == IF a >= b THEN a ELSE b
Min(a, b) == IF a <= b THEN a ELSE b

\* MinimaxNode(state): keeps the reference it is given, value 0, no successors.
\* successors is a dict: here the sequence of its (move, node) items in
\* insertion order.
MinimaxNode(a) == [state |-> a, value |-> 0, successors |-> <<>>]

\* deepcopy left out: the child keeps a reference to its parent's State.
NoCopy(h, a) == [heap |-> h, ref |-> a]

\* deepcopy(node.state): a fresh State object equal to the one at address a.
deepcopy(h, a) == [heap |-> Append(h, h[a]), ref |-> Len(h) + 1]

\* BaseCase stopping one ply early.
BaseCaseOffByOne(depth, s) == depth <= 1 \/ s.is_terminal

\* The base-case test of minimax.
BaseCase(depth, s) == depth = 0 \/ s.is_terminal

\* Which fold the node uses: max when the node's turn is the maximizing role.
Maximizing(s, max_role) == s.turn = max_role

\* Fold without the minimizing branch.
FoldMaxOnly(maximizing, acc, v) == Max(acc, v)

\* node.value = max(node.value, v) / min(node.value, v).
Fold(maximizing, acc, v) == IF maximizing THEN Max(acc, v) ELSE Min(acc, v)

RECURSIVE SetSuccessors(_, _, _, _, _)
\* The "for move in moves" loop: copy the node's state, advance the copy,
\* record a fresh child under the move.
SetSuccessors(h, a, moves, k, succ) ==
    IF k > Len(moves) THEN [heap |-> h, successors |-> succ]
    ELSE LET cp == deepcopy(h, a)
             h2 == [cp.heap EXCEPT ![cp.ref] = advance_state(@, moves[k])]
         IN SetSuccessors(h2, a, moves, k + 1,
                          Append(succ, [move |-> moves[k], node |-> MinimaxNode(cp.ref)]))

RECURSIVE minimax(_, _, _, _, _)
RECURSIVE EvalChildren(_, _, _, _, _, _, _, _)

\* minimax(node, depth, max_role, heuristic_fn) run on heap h:
\* the heap and the node as the call leaves them, and the value returned.
minimax(h, node, depth, max_role, heur) ==
    IF BaseCase(depth, h[node.state])
    THEN LET v == Heur(heur, h[node.state], max_role)
         IN [heap |-> h, node |-> [node EXCEPT !.value = v], value |-> v]
    ELSE LET ex == SetSuccessors(h, node.state, get_legal_moves(h[node.state]), 1, node.successors)
             maximizing == Maximizing(ex.heap[node.state], max_role)
             ev == EvalChildren(ex.heap, ex.successors, 1, depth - 1, max_role, heur,
                                maximizing, IF maximizing THEN -Inf ELSE Inf)
         IN [heap |-> ev.heap,
             node |-> [state |-> node.state, value |-> ev.value, successors |-> ev.successors],
             value |-> ev.value]

\* The "for child in node.successors.keys()" loop.
EvalChildren(h, succ, k, d, max_role, heur, maximizing, acc) ==
    IF k > Len(succ) THEN [heap |-> h, successors |-> succ, value |-> acc]
    ELSE LET r == minimax(h, succ[k].node, d, max_role, heur)
         IN EvalChildren(r.heap, [succ EXCEPT ![k].node = r.node], k + 1, d, max_role, heur,
                         maximizing, Fold(maximizing, acc, r.value))

(* ---------------------------------------------------------------------- *)
(* MinimaxPlayer.play                                                     *)
(* ---------------------------------------------------------------------- *)

\* root.successors[move].value
ChildValue(succ, move) == (CHOOSE e \in SeqToSet(succ) : e.move = move).node.value

\* Better with >= for >: a tie replaces the list.
BetterOrTied(succ, best, move) == Len(best) = 0 \/ ChildValue(succ, move) >= ChildValue(succ, best[1])

\* The test that replaces best_moves by [move].
Better(succ, best, move) == Len(best) = 0 \/ ChildValue(succ, move) > ChildValue(succ, best[1])

RECURSIVE ScanBest(_, _, _)
\* The "for move in root.successors.keys()" loop of play.
ScanBest(succ, k, best) ==
    IF k > Len(succ) THEN best
    ELSE LET move == succ[k].move
         IN IF Better(succ, best, move) THEN ScanBest(succ, k + 1, <<move>>)
            ELSE IF ChildValue(succ, move) = ChildValue(succ, best[1])
                 THEN ScanBest(succ, k + 1, Append(best, move))
                 ELSE ScanBest(succ, k + 1, best)

(* ---------------------------------------------------------------------- *)
(* Openings: legal move sequences the games start from                    *)
(* ---------------------------------------------------------------------- *)

\* The element of a one-element set: binds a value that is computed once.
Only(S) == CHOOSE e \in S : TRUE

RECURSIVE Replay(_, _, _)
\* The position after the moves seq[k], seq[k+1], ... are played from s.
Replay(s, seq, k) ==
    IF k > Len(seq) THEN s
    ELSE Only({ Replay(n, seq, k + 1) : n \in {advance_state(s, seq[k])} })

RECURSIVE IsLegalLine(_, _, _)
\* Every move of the line is a legal move of the position it is played in.
IsLegalLine(s, seq, k) ==
    IF k > Len(seq) THEN TRUE
    ELSE IF seq[k] \in SeqToSet(get_legal_moves(s))
         THEN Only({ IsLegalLine(n, seq, k + 1) : n \in {advance_state(s, seq[k])} })
         ELSE FALSE

\* Early and middle game: the empty board, a line that lets 'x' build a run
\* on the right edge, a position in which 'x' can complete a horizontal four,
\* and an end game with one empty cell left in each of four columns.
Openings ==
    { <<>>,
      <<4, 4, 5, 5>>,
      <<3, 2, 2, 4, 4, 0, 3, 6, 2, 0, 4, 6, 3, 0, 2, 1>>,
      <<3, 0, 0, 6, 6, 2, 1, 3, 3, 3, 1, 2, 5, 2, 1, 0, 4, 0, 2, 4,
        0, 2, 5, 5, 6, 5, 2, 0, 4, 4, 5, 1, 6, 1, 4, 6, 1, 3>> }

\* A middle game with five open columns and end games with three or four,
\* 'x' or 'o' to move, in which wins of either role, draws and undecided
\* positions lie within a few plies.
SearchOpenings ==
    { <<3, 2, 6, 2, 0, 0, 2, 6, 5, 0, 0, 0, 5, 3, 2, 2, 0, 2>>,
      <<5, 2, 1, 6, 0, 4, 6, 2, 5, 5, 2, 6, 5, 0, 6, 4, 1, 0, 0, 5,
        1, 1, 4, 4, 1, 1, 0, 6, 6, 5, 4, 3, 4>>,
      <<2, 0, 1, 3, 4, 2, 4, 4, 2, 1, 5, 6, 4, 4, 5, 5, 5, 0, 3, 6,
        6, 6, 5, 6, 4, 3, 3, 3, 3, 0, 5, 6>>,
      <<3, 2, 6, 6, 1, 2, 2, 3, 6, 5, 4, 5, 4, 2, 6, 2, 4, 0, 2, 5,
        5, 4, 0, 6, 1, 0, 4, 1, 5, 6, 1, 4, 0, 1, 0, 3, 0, 3, 3>>,
      <<1, 3, 1, 1, 1, 1, 1, 3, 5, 2, 3, 0, 4, 3, 2, 5, 5, 2, 6, 0,
        6, 4, 0, 0, 0, 4, 2, 4, 3, 0, 4, 3, 2>>,
      <<3, 0, 0, 6, 6, 2, 1, 3, 3, 3, 1, 2, 5, 2, 1, 0, 4, 0, 2, 4,
        0, 2, 5, 5, 6, 5, 2, 0, 4, 4, 5, 1, 6, 1, 4, 6, 1, 3>> }

Free(s) == Cardinality({cr \in Cols \X Rows : s.board[cr[1]][cr[2]] = "."})

(* ---------------------------------------------------------------------- *)
(* State machine                                                          *)
(* ---------------------------------------------------------------------- *)

VARIABLES
    heap,        \* the State objects; heap[1] is the game's current position
    root,        \* the MinimaxNode the last search was run on
    best_moves,  \* play's best_moves list when it reached its return
    call,        \* the last call: operation, arguments, the position it was given
    ret,         \* its outcome: a value, a move or the exception raised
    plies        \* moves made since the opening

vars == <<heap, root, best_moves, call, ret, plies>>

NoCall == [op |-> "none", depth |-> 0, max_role |-> "", heur |-> "", arg |-> NewState]
NoRet == [kind |-> "none", val |-> 0]

InitFrom(lines) ==
    /\ \E seq \in lines : IsLegalLine(NewState, seq, 1) /\ heap = <<Replay(NewState, seq, 1)>>
    /\ root = MinimaxNode(1)
    /\ best_moves = <<>>
    /\ call = NoCall
    /\ ret = NoRet
    /\ plies = 0

Init == InitFrom(Openings)

\* Game.play_game applies the move a player returned: any legal move. The tree
\* of the previous decision is dropped; each position sees one call.
Move(m) ==
    /\ plies < MaxPlies
    /\ m \in SeqToSet(get_legal_moves(heap[1]))
    /\ heap' = <<advance_state(heap[1], m)>>
    /\ root' = MinimaxNode(1)
    /\ best_moves' = <<>>
    /\ call' = NoCall
    /\ ret' = NoRet
    /\ plies' = plies + 1

\* A heuristic called on the current position.
Evaluate(h, r) ==
    /\ call.op = "none"
    /\ heap' = <<heap[1]>>
    /\ root' = MinimaxNode(1)
    /\ best_moves' = <<>>
    /\ call' = [op |-> "heur", depth |-> 0, max_role |-> r, heur |-> h, arg |-> heap[1]]
    /\ ret' = [kind |-> "value", val |-> Heur(h, heap[1], r)]
    /\ UNCHANGED plies

\* minimax(MinimaxNode(state), depth, max_role, heuristic_fn)
Minimax(depth, r, h) ==
    /\ call.op = "none"
    /\ depth < 0 => Free(heap[1]) <= MaxFree
    /\ \E res \in {minimax(<<heap[1]>>, MinimaxNode(1), depth, r, h)} :
          /\ heap' = res.heap
          /\ root' = res.node
          /\ ret' = [kind |-> "value", val |-> res.value]
    /\ best_moves' = <<>>
    /\ call' = [op |-> "minimax", depth |-> depth, max_role |-> r, heur |-> h, arg |-> heap[1]]
    /\ UNCHANGED plies

\* MinimaxPlayer(depth, heur).play(state), the player initialized with the role
\* whose turn it is (the game asks the player to move on its own turn).
MinimaxPlay(depth, h) ==
    /\ call.op = "none"
    /\ ~heap[1].is_terminal
    /\ \E role \in {heap[1].turn} :
       \E res \in {minimax(<<heap[1]>>, MinimaxNode(1), depth, role, h)} :
       \E best \in {ScanBest(res.node.successors, 1, <<>>)} :
          /\ heap' = res.heap
          /\ root' = res.node
          /\ best_moves' = best
          /\ call' = [op |-> "play", depth |-> depth, max_role |-> role, heur |-> h, arg |-> heap[1]]
          /\ IF Len(best) = 0
             THEN ret' = [kind |-> "error", val |-> "ValueError"]
             ELSE \E idx \in 1 .. Len(best) : ret' = [kind |-> "move", val |-> best[idx]]
    /\ UNCHANGED plies

\* FirstMovePlayer.play(state)
FirstMovePlay ==
    /\ call.op = "none"
    /\ ~heap[1].is_terminal
    /\ heap' = <<heap[1]>>
    /\ root' = MinimaxNode(1)
    /\ best_moves' = <<>>
    /\ call' = [op |-> "first", depth |-> 0, max_role |-> "", heur |-> "", arg |-> heap[1]]
    /\ ret' = [kind |-> "move", val |-> get_legal_moves(heap[1])[1]]
    /\ UNCHANGED plies

\* RandomPlayer.play(state)
RandomPlay ==
    /\ call.op = "none"
    /\ ~heap[1].is_terminal
    /\ heap' = <<heap[1]>>
    /\ root' = MinimaxNode(1)
    /\ best_moves' = <<>>
    /\ call' = [op |-> "random", depth |-> 0, max_role |-> "", heur |-> "", arg |-> heap[1]]
    /\ LET moves == get_legal_moves(heap[1])
       IN \E idx \in 1 .. Len(moves) : ret' = [kind |-> "move", val |-> moves[idx]]
    /\ UNCHANGED plies

Next ==
    \/ \E m \in Cols : Move(m)
    \/ \E h \in Heuristics, r \in Roles : Evaluate(h, r)
    \/ \E d \in -1 .. MaxDepth, r \in Roles, h \in Heuristics : Minimax(d, r, h)
    \/ \E d \in 0 .. MaxDepth, h \in Heuristics : MinimaxPlay(d, h)
    \/ FirstMovePlay
    \/ RandomPlay

Spec == Init /\ [][Next]_vars

\* The heuristics alone, on the positions of the early and middle game.
NextHeur ==
    \/ \E m \in Cols : Move(m)
    \/ \E h \in Heuristics, r \in Roles : Evaluate(h, r)

SpecHeur == Init /\ [][NextHeur]_vars

\* Every operation, on the end-game positions.
InitSearch == InitFrom(SearchOpenings)

SpecSearch == InitSearch /\ [][Next]_vars

(* ---------------------------------------------------------------------- *)
(* Reading the tree a search left behind                                  *)
(* ---------------------------------------------------------------------- *)

RECURSIVE NodesAt(_, _)
\* The nodes of the tree under n, each with its distance from n: <<k, node>>.
NodesAt(n, k) ==
    {<<k, n>>} \cup UNION { NodesAt(n.successors[i].node, k + 1) : i \in 1 .. Len(n.successors) }

Tree == NodesAt(root, 0)

Keys(n) == [i \in 1 .. Len(n.successors) |-> n.successors[i].move]

SetMax(S) == CHOOSE v \in S : \A w \in S : w <= v
SetMin(S) == CHOOSE v \in S : \A w \in S : v <= w

RECURSIVE Classical(_, _, _, _)
\* The depth-limited minimax value of position s for maximizer r, by the
\* textbook recursion on positions (no nodes, no heap).
Classical(s, d, r, h) ==
    IF d = 0 \/ s.is_terminal THEN Heur(h, s, r)
    ELSE LET vals == { Classical(advance_state(s, m), d - 1, r, h) : m \in SeqToSet(get_legal_moves(s)) }
         IN IF s.turn = r THEN SetMax(vals) ELSE SetMin(vals)

Searched == call.op \in {"minimax", "play"}

(* ---------------------------------------------------------------------- *)
(* C1: move legality                                                      *)
(* ---------------------------------------------------------------------- *)

\* C1: whenever an agent's play has been called (MinimaxPlayer of any depth
\* >= 0 and heuristic, FirstMovePlayer, RandomPlayer), it returned a move
\* and the move is one of the legal moves of the position it was given.
C1_PlayReturnsLegalMove ==
    call.op \in {"play", "first", "random"} =>
        /\ ret.kind = "move"
        /\ ret.val \in SeqToSet(get_legal_moves(call.arg))

(* ---------------------------------------------------------------------- *)
(* C2: minimax computes the classical depth-limited value                 *)
(* ---------------------------------------------------------------------- *)

\* C2: after minimax(node(P), d, r, H) with d >= 0, the value returned and the
\* value stored on the node are the classical depth-limited minimax value of
\* P for the fixed maximizer r; for a terminal P that is H(P, r) at every d.
C2_MinimaxIsClassical ==
    (call.op = "minimax" /\ call.depth >= 0) =>
        /\ ret.kind = "value"
        /\ ret.val = Classical(call.arg, call.depth, call.max_role, call.heur)
        /\ root.value = ret.val
        /\ call.arg.is_terminal => ret.val = Heur(call.heur, call.arg, call.max_role)

\* A depth-2 search from a minimizing root whose children are a terminal
\* position and expanded positions, with different values among them.
C2_Witness ==
    /\ call.op = "minimax" /\ call.depth = 2
    /\ ~call.arg.is_terminal /\ call.arg.turn # call.max_role
    /\ \E i, j \in 1 .. Len(root.successors) :
          /\ heap[root.successors[i].node.state].is_terminal
          /\ Len(root.successors[j].node.successors) > 1
          /\ root.successors[i].node.value # root.successors[j].node.value

(* ---------------------------------------------------------------------- *)
(* C3: play returns exactly the tied-best root moves                      *)
(* ---------------------------------------------------------------------- *)

BestRootMoves ==
    { e.move : e \in { f \in SeqToSet(root.successors) :
                         \A g \in SeqToSet(root.successors) : g.node.value <= f.node.value } }

\* C3: after MinimaxPlayer.play with depth >= 1 on a non-terminal position at
\* the agent's turn, best_moves (from which the result is drawn, any index)
\* holds exactly the root moves whose child value is the maximum, each once;
\* the move returned is one of them and its child value is the root's
\* minimax value at the configured depth.
C3_PlayReturnsTiedBest ==
    (call.op = "play" /\ call.depth >= 1 /\ ~call.arg.is_terminal /\ call.arg.turn = call.max_role) =>
        /\ ret.kind = "move"
        /\ SeqToSet(best_moves) = BestRootMoves
        /\ Len(best_moves) = Cardinality(BestRootMoves)
        /\ ret.val \in BestRootMoves
        /\ ChildValue(root.successors, ret.val) = root.value
        /\ root.value = Classical(call.arg, call.depth, call.max_role, call.heur)

\* play at depth 2 with several tied best moves and a worse move beside them,
\* returning a tied move other than the first.
C3_Witness ==
    /\ call.op = "play" /\ call.depth = 2 /\ ret.kind = "move"
    /\ Len(best_moves) >= 2
    /\ Len(best_moves) < Len(root.successors)
    /\ ret.val = best_moves[2]

(* ---------------------------------------------------------------------- *)
(* C4: negative depth                                                     *)
(* ---------------------------------------------------------------------- *)

\* C4: a search called with a negative depth is rejected with an error:
\* no child node is created and the node's value is left as it was.
C4_NegativeDepthRejected ==
    (call.op = "minimax" /\ call.depth < 0) =>
        /\ ret.kind = "error"
        /\ root.successors = <<>>
        /\ root.value = 0

(* ---------------------------------------------------------------------- *)
(* C5: terminal scoring dominates heuristic scoring                       *)
(* ---------------------------------------------------------------------- *)

\* C5: every heuristic scores a non-terminal position strictly between -100
\* and 100, and a terminal one exactly 100 (maximizer won), -100 (the other
\* role won) or 0 (draw).
C5_TerminalDominates ==
    call.op = "heur" =>
        IF call.arg.is_terminal
        THEN ret.val = (IF call.arg.winner = "" THEN 0
                        ELSE IF call.arg.winner = call.max_role THEN 100 ELSE -100)
        ELSE -100 < ret.val /\ ret.val < 100

(* ---------------------------------------------------------------------- *)
(* C6: an immediate horizontal win is taken                               *)
(* ---------------------------------------------------------------------- *)

\* Cell (c, r) is empty and a piece dropped in column c lands on it.
Playable(s, c, r) ==
    coords_legal(c, r) /\ s.board[c][r] = "." /\ (r = 0 \/ s.board[c][r - 1] # ".")

\* Three marks of p side by side in a row with a playable cell completing four.
HorizontalThreat(s, p) ==
    \E c \in Cols, r \in Rows :
        /\ coords_legal(c + 2, r)
        /\ \A k \in 0 .. 2 : s.board[c + k][r] = p
        /\ (Playable(s, c - 1, r) \/ Playable(s, c + 3, r))

\* C6: with the agent to move, three of its marks in a horizontal run and the
\* completing cell playable, play at depth 1 with my_heuristic returns only a
\* column whose move wins the game for the agent.
C6_ImmediateWinTaken ==
    (/\ call.op = "play" /\ call.depth = 1 /\ call.heur = "my_heuristic"
     /\ call.arg.turn = call.max_role
     /\ HorizontalThreat(call.arg, call.max_role)) =>
        /\ ret.kind = "move"
        /\ advance_state(call.arg, ret.val).is_terminal
        /\ advance_state(call.arg, ret.val).winner = call.max_role

(* ---------------------------------------------------------------------- *)
(* C7: shape of the materialized tree                                     *)
(* ---------------------------------------------------------------------- *)

\* C7: after a search with depth d >= 0, a node at distance k from the root
\* has as successor keys exactly the legal moves of its position when k < d
\* and the position is not terminal, and no successors otherwise; no node
\* lies deeper than d.
C7_TreeShape ==
    (Searched /\ call.depth >= 0) =>
        \A kn \in Tree :
            /\ kn[1] <= call.depth
            /\ IF kn[1] < call.depth /\ ~heap[kn[2].state].is_terminal
               THEN Keys(kn[2]) = get_legal_moves(heap[kn[2].state])
               ELSE kn[2].successors = <<>>

\* A depth-2 tree holding an expanded child, a terminal child without
\* successors and an undecided grandchild left unexpanded at the horizon.
C7_Witness ==
    /\ Searched /\ call.depth = 2
    /\ \E kn \in Tree : kn[1] = 1 /\ heap[kn[2].state].is_terminal
    /\ \E kn \in Tree : kn[1] = 1 /\ Len(kn[2].successors) >= 2
    /\ \E kn \in Tree : kn[1] = 2 /\ ~heap[kn[2].state].is_terminal

(* ---------------------------------------------------------------------- *)
(* C8: the search never mutates a position it was given                   *)
(* ---------------------------------------------------------------------- *)

\* C8: after minimax or play returns, the root's position is the position
\* the call was given, every child's position is its parent's position
\* advanced by the one move it is recorded under, and no two nodes share a
\* State object.
C8_PositionsNotMutated ==
    Searched =>
        /\ root.state = 1
        /\ heap[1] = call.arg
        /\ \A kn \in Tree : \A i \in 1 .. Len(kn[2].successors) :
              heap[kn[2].successors[i].node.state]
                  = advance_state(heap[kn[2].state], kn[2].successors[i].move)
        /\ \A kn, km \in Tree : kn[2].state = km[2].state => kn = km

\* play at depth 2 that built children and grandchildren.
C8_Witness ==
    /\ call.op = "play" /\ call.depth = 2
    /\ Len(root.successors) >= 3
    /\ \E kn \in Tree : kn[1] = 2
    /\ Len(heap) >= 8

(* ---------------------------------------------------------------------- *)
(* C9: what three_line_heur counts                                        *)
(* ---------------------------------------------------------------------- *)

\* Start cells and directions of three marks of p in a line, all in bounds.
ThreeRuns(s, p) ==
    { t \in Cols \X Rows \X (1 .. 4) :
        /\ s.board[t[1]][t[2]] = p
        /\ coords_legal(t[1] + 2 * col_dirs[t[3]], t[2] + 2 * row_dirs[t[3]])
        /\ s.board[t[1] + col_dirs[t[3]]][t[2] + row_dirs[t[3]]] = p
        /\ s.board[t[1] + 2 * col_dirs[t[3]]][t[2] + 2 * row_dirs[t[3]]] = p }

\* The fourth cell beyond the run is in bounds and does not hold p.
FourthBeyond(s, p, t) ==
    /\ coords_legal(t[1] + 3 * col_dirs[t[3]], t[2] + 3 * row_dirs[t[3]])
    /\ s.board[t[1] + 3 * col_dirs[t[3]]][t[2] + 3 * row_dirs[t[3]]] # p

ExactThreeRuns(s, p) == { t \in ThreeRuns(s, p) : FourthBeyond(s, p, t) }

\* C9 as stated: on a non-terminal position three_line_heur counts the starts
\* of exact runs of three that have a fourth in-bounds cell beyond them (+1
\* for the maximizer's, -1 for the other's); a run ending on the board edge
\* is not counted.
C9_CountsRunsWithFourthCell ==
    (call.op = "heur" /\ call.heur = "three_line_heur" /\ ~call.arg.is_terminal) =>
        ret.val = Cardinality(ExactThreeRuns(call.arg, call.max_role))
                  - Cardinality(ExactThreeRuns(call.arg, Other(call.max_role)))

\* C9 as amended: on a non-terminal position three_line_heur counts every
\* start cell and direction of three identical marks whose third cell is in
\* bounds (+1 for the maximizer's, -1 for the other's); no fourth cell is
\* looked at, so a run ending on the board edge is counted too.
C9_CountsEveryThreeRun ==
    (call.op = "heur" /\ call.heur = "three_line_heur" /\ ~call.arg.is_terminal) =>
        ret.val = Cardinality(ThreeRuns(call.arg, call.max_role))
                  - Cardinality(ThreeRuns(call.arg, Other(call.max_role)))

\* three_line_heur evaluated on a non-terminal position holding a run of
\* three whose third cell lies on the board edge.
C9_Witness ==
    /\ call.op = "heur" /\ call.heur = "three_line_heur" /\ ~call.arg.is_terminal
    /\ \E t \in ThreeRuns(call.arg, call.max_role) :
          ~coords_legal(t[1] + 3 * col_dirs[t[3]], t[2] + 3 * row_dirs[t[3]])
    /\ ret.val > 0

(* ---------------------------------------------------------------------- *)
(* C10: zero-sum antisymmetry                                             *)
(* ---------------------------------------------------------------------- *)

RECURSIVE Negated(_)
\* The tree n with every stored value negated.
Negated(n) ==
    [state |-> n.state, value |-> -n.value,
     successors |-> [i \in 1 .. Len(n.successors) |->
                        [move |-> n.successors[i].move, node |-> Negated(n.successors[i].node)]]]

\* C10: the search for maximizer r and the search for the other role from the
\* same position, depth and heuristic return opposite values and leave
\* trees whose corresponding nodes hold opposite values; a heuristic called
\* for r and for the other role gives opposite values.
C10_Antisymmetry ==
    /\ (call.op = "minimax" /\ call.depth >= 0) =>
          LET o == minimax(<<call.arg>>, MinimaxNode(1), call.depth, Other(call.max_role), call.heur)
          IN o.value = -ret.val /\ o.node = Negated(root)
    /\ call.op = "heur" => Heur(call.heur, call.arg, Other(call.max_role)) = -ret.val

\* A depth-2 search with my_heuristic whose tree holds a decided position
\* and whose value is a heuristic estimate other than 0.
C10_Witness ==
    /\ call.op = "minimax" /\ call.depth = 2 /\ call.heur = "my_heuristic"
    /\ ret.val \notin {0, 100, -100}
    /\ \E kn \in Tree : heap[kn[2].state].is_terminal /\ kn[2].value # 0
====
